---- MODULE Spec2Model ----
(***************************************************************************)
(* Model of aws_lambda_events_codegen/go_to_rust/src/lib.rs: the Go-to-Rust *)
(* translator.  Text is modelled as TLA+ strings, character by character    *)
(* where the code inspects it (string equality, the HashMap regex, case     *)
(* conversion, sorting).  The pest syntax tree is a tree of records         *)
(* [rule, text, inner].                                                     *)
(***************************************************************************)
EXTENDS Integers, Sequences, FiniteSets, TLC

VARIABLES
    pc,            \* position of the run: see each specification's Init
    src,           \* SpecType: the syntax node handed to parse_go_type
    counter,       \* SpecType: the caller's generic_counter, <<>> = None, <<n>> = Some(n)
    go_type,       \* SpecType: result of parse_go_type
    rust,          \* SpecType: result of translate_go_type_to_rust_type
    nitems,        \* parse_go_string: top-level pairs consumed so far
    scope,         \* parse_go_string: the codegen Scope being filled
    output,        \* parse_go_string: <<>> until it returns Ok, then <<scope>>
    pairs,         \* parse_struct: the struct_field nodes of the struct in hand
    fields,        \* parse_struct: Vec<FieldDef> from parse_struct_fields
    idx,           \* parse_struct: fields consumed by the `for f in fields` loop
    rust_struct,   \* parse_struct: the codegen Struct being built
    libraries,     \* parse_struct: HashSet<String> of required imports
    generics,      \* parse_struct: the per-struct generic counter
    rust_data,     \* parse_struct: the translation of the field last consumed
    rule,          \* parse_go_string: as_rule() of the top-level pair matched last
    ordered_libs   \* add_sorted_imports: ordered_libs of the last call

vars == <<pc, src, counter, go_type, rust, nitems, scope, output,
          pairs, fields, idx, rust_struct, libraries, generics, rust_data,
          rule, ordered_libs>>

typeVars == <<src, counter, go_type, rust>>
fileVars ==
    <<nitems, scope, output, pairs, fields, idx, rust_struct, libraries, generics, rust_data,
      rule, ordered_libs>>

-----------------------------------------------------------------------------
(* Bounds *)

MaxDepth == 2        \* nesting depth of the types drawn in SpecType
MaxCounter == 2      \* largest generic counter value a translation starts from
MaxFields == 2       \* fields per struct in Spec
MaxItems == 2        \* top-level declarations per input in Spec

-----------------------------------------------------------------------------
(* Characters and strings *)

UpperChars == "ABCDEFGHIJKLMNOPQRSTUVWXYZ"
LowerChars == "abcdefghijklmnopqrstuvwxyz"
\* The characters that occur in the model's texts, in ASCII (byte) order.
AsciiOrder == "*.0123456789:<>ABCDEFGHIJKLMNOPQRSTUVWXYZ[]_abcdefghijklmnopqrstuvwxyz{}"

Char(s, i) == SubSeq(s, i, i)

CharsOf(t) == {Char(t, i) : i \in 1..Len(t)}

\* Position of each character of table t in it.
IndexMap(t) == [c \in CharsOf(t) |-> CHOOSE i \in 1..Len(t) : Char(t, i) = c]

UpperSet == CharsOf(UpperChars)
LowerSet == CharsOf(LowerChars)
UpperIndex == IndexMap(UpperChars)
LowerIndex == IndexMap(LowerChars)
AsciiIndex == IndexMap(AsciiOrder)

IsUpper(c) == c \in UpperSet
IsLower(c) == c \in LowerSet

ToLowerChar(c) == IF IsUpper(c) THEN Char(LowerChars, UpperIndex[c]) ELSE c
ToUpperChar(c) == IF IsLower(c) THEN Char(UpperChars, LowerIndex[c]) ELSE c

RECURSIVE ToLowercase(_)
ToLowercase(s) ==
    IF s = "" THEN "" ELSE ToLowerChar(Char(s, 1)) \o ToLowercase(SubSeq(s, 2, Len(s)))

\* heck's capitalize: first character upper-cased, the rest lower-cased.
Capitalize(s) ==
    IF s = "" THEN "" ELSE ToUpperChar(Char(s, 1)) \o ToLowercase(SubSeq(s, 2, Len(s)))

\* heck's transform over one identifier: splits it into words at underscores,
\* at lower-to-upper transitions and before the last capital of an acronym,
\* rewrites each word (snake: lower-case, camel: capitalize) and joins them
\* (snake: "_", camel: "").  mode is "Boundary", "Lowercase" or "Uppercase".
Emit(out, first, w, snake) ==
    IF snake THEN (IF first THEN "" ELSE "_") \o ToLowercase(w)
             ELSE Capitalize(w)

RECURSIVE Transform(_, _, _, _, _, _, _)
Transform(s, i, init, mode, first, out, snake) ==
    IF i > Len(s) THEN out
    ELSE LET c == Char(s, i) IN
      IF c = "_"
      THEN Transform(s, i + 1, IF init = i THEN init + 1 ELSE init, mode, first, out, snake)
      ELSE IF i = Len(s)
      THEN out \o Emit(out, first, SubSeq(s, init, Len(s)), snake)
      ELSE LET next == Char(s, i + 1)
               next_mode == IF IsLower(c) THEN "Lowercase"
                            ELSE IF IsUpper(c) THEN "Uppercase" ELSE mode
           IN IF next = "_" \/ (next_mode = "Lowercase" /\ IsUpper(next))
              THEN Transform(s, i + 1, i + 1, "Boundary", FALSE,
                             out \o Emit(out, first, SubSeq(s, init, i), snake), snake)
              ELSE IF mode = "Uppercase" /\ IsUpper(c) /\ IsLower(next)
              THEN Transform(s, i + 1, i, "Boundary", FALSE,
                             out \o Emit(out, first, SubSeq(s, init, i - 1), snake), snake)
              ELSE Transform(s, i + 1, init, next_mode, first, out, snake)

to_snake_case(s) == Transform(s, 1, 1, "Boundary", TRUE, "", TRUE)
\* Variant of to_camel_case that leaves the name as written.
to_camel_case_AsWritten(s) == s

to_camel_case(s) == Transform(s, 1, 1, "Boundary", TRUE, "", FALSE)

\* s < t in byte order (Vec<String>::sort).
RECURSIVE StrLess(_, _)
StrLess(s, t) ==
    IF t = "" THEN FALSE
    ELSE IF s = "" THEN TRUE
    ELSE LET a == AsciiIndex[Char(s, 1)]
             b == AsciiIndex[Char(t, 1)]
         IN IF a # b THEN a < b
            ELSE StrLess(SubSeq(s, 2, Len(s)), SubSeq(t, 2, Len(t)))

StartsWith(s, p) == Len(s) >= Len(p) /\ SubSeq(s, 1, Len(p)) = p
EndsWith(s, p) == Len(s) >= Len(p) /\ SubSeq(s, Len(s) - Len(p) + 1, Len(s)) = p

-----------------------------------------------------------------------------
(* The pest syntax tree: a node is [rule, text, inner].  text is the span   *)
(* of the node where the code reads it (as_str on a primitive, identifier,  *)
(* key type, name or comment) and "" on the composite nodes, whose span is  *)
(* only logged.                                                             *)

Node(r, t, in) == [rule |-> r, text |-> t, inner |-> in]

Primitive(t) == Node("primitive", t, <<>>)
Ident(t) == Node("ident", t, <<>>)
PackageIdent(t) == Node("package_ident", t, <<>>)
Interface == Node("interface", "interface{}", <<>>)
Array(n) == Node("array", "", <<n>>)
Map(k, v) ==
    Node("map", "", <<Node("key_type", k, <<>>), Node("value_type", "", <<v>>)>>)
PointerTo(v) ==
    Node("pointer_type", "", <<Node("pointer", "*", <<>>), Node("value_type", "", <<v>>)>>)

-----------------------------------------------------------------------------
(* enum GoType *)

GoT(t, n, a) == [tag |-> t, name |-> n, args |-> a]

StringType == GoT("StringType", "", <<>>)
IntType == GoT("IntType", "", <<>>)
UnsignedIntType == GoT("UnsignedIntType", "", <<>>)
FloatType == GoT("FloatType", "", <<>>)
BoolType == GoT("BoolType", "", <<>>)
ByteType == GoT("ByteType", "", <<>>)
UserDefined(x) == GoT("UserDefined", x, <<>>)
ArrayType(x) == GoT("ArrayType", "", <<x>>)
MapType(k, v) == GoT("MapType", "", <<k, v>>)
InterfaceType == GoT("InterfaceType", "", <<>>)
PointerType(x) == GoT("PointerType", "", <<x>>)
TimeType == GoT("TimeType", "", <<>>)
TimestampMillisecondsType == GoT("TimestampMillisecondsType", "", <<>>)
TimestampSecondsType == GoT("TimestampSecondsType", "", <<>>)
JsonRawType == GoT("JsonRawType", "", <<>>)

\* Result<GoType, Error>, with a panic (unimplemented!) as the failing case.
NoGoType == GoT("None", "", <<>>)
Ok(v) == [ok |-> TRUE, val |-> v, msg |-> ""]
Panic(m) == [ok |-> FALSE, val |-> NoGoType, msg |-> m]

-----------------------------------------------------------------------------
(* Parsing syntax nodes into GoType *)

parse_go_type_primitive(t) ==
    CASE t = "string" -> Ok(StringType)
      [] t \in {"int", "int32", "int64"} -> Ok(IntType)
      [] t \in {"uint", "uint32", "uint64"} -> Ok(UnsignedIntType)
      [] t \in {"float", "float32", "float64"} -> Ok(FloatType)
      [] t = "bool" -> Ok(BoolType)
      [] t = "byte" -> Ok(ByteType)
      [] OTHER -> Panic("not implemented: missing go type primitive")

parse_go_ident(t) ==
    CASE t = "MilliSecondsEpochTime" -> Ok(TimestampMillisecondsType)
      [] t = "SecondsEpochTime" -> Ok(TimestampSecondsType)
      [] OTHER -> Ok(UserDefined(t))

parse_go_package_ident(t) ==
    CASE t = "time.Time" -> Ok(TimeType)
      [] t = "json.RawMessage" -> Ok(JsonRawType)
      [] OTHER -> Panic("not implemented: missing go package ident mapping")

parse_go_type_interface(t) == Ok(InterfaceType)

\* `?` on a Result: continue with f's value or pass the failure on.
Wrap1(r, tag) == IF r.ok THEN Ok(GoT(tag, "", <<r.val>>)) ELSE r

RECURSIVE parse_go_type_node(_)
RECURSIVE parse_go_type_array(_)
RECURSIVE parse_go_type_map(_)
RECURSIVE parse_go_type_pointer(_)

\* parse_go_type over pairs holding the one node p.
parse_go_type_node(p) ==
    CASE p.rule = "array" -> parse_go_type_array(p.inner)
      [] p.rule = "primitive" -> parse_go_type_primitive(p.text)
      [] p.rule = "ident" -> parse_go_ident(p.text)
      [] p.rule = "package_ident" -> parse_go_package_ident(p.text)
      [] p.rule = "map" -> parse_go_type_map(p.inner)
      [] p.rule = "interface" -> parse_go_type_interface(p.text)
      [] p.rule = "pointer_type" -> parse_go_type_pointer(p.inner)
      [] OTHER -> Panic("not implemented")

\* parse_go_type(pairs): the last pair decides; an empty sequence fails the expect.
parse_go_type(ps) ==
    IF ps = <<>> THEN Panic("parsing go type")
    ELSE parse_go_type_node(ps[Len(ps)])

parse_go_type_array(ps) ==
    LET p == ps[1] IN
    CASE p.rule = "primitive" -> Wrap1(parse_go_type_primitive(p.text), "ArrayType")
      [] p.rule = "ident" -> Ok(ArrayType(UserDefined(p.text)))
      [] p.rule = "map" -> Wrap1(parse_go_type_map(p.inner), "ArrayType")
      [] p.rule = "array" -> Wrap1(parse_go_type_array(p.inner), "ArrayType")
      [] OTHER -> Panic("not implemented")

\* Variant of parse_go_type_map that takes a key that is no primitive as an
\* identifier instead of failing on it.
parse_go_type_map_AnyKey(ps) ==
    LET prim == parse_go_type_primitive(ps[1].text)
        k == IF prim.ok THEN prim ELSE Ok(UserDefined(ps[1].text)) IN
    LET v == parse_go_type(ps[2].inner) IN
    IF ~v.ok THEN v ELSE Ok(MapType(k.val, v.val))

parse_go_type_map(ps) ==
    LET k == parse_go_type_primitive(ps[1].text) IN
    IF ~k.ok THEN k
    ELSE LET v == parse_go_type(ps[2].inner) IN
         IF ~v.ok THEN v ELSE Ok(MapType(k.val, v.val))

parse_go_type_pointer(ps) == Wrap1(parse_go_type(ps[2].inner), "PointerType")

-----------------------------------------------------------------------------
(* Translating GoType into RustType *)

\* struct RustGeneric; default is <<>> (None) or <<d>> (Some(d)).
RustGeneric(v, d, b) == [value |-> v, default |-> d, bounds |-> b]

\* struct RustType, together with the caller's generic counter after the call
\* (the counter is an Option<&mut usize>: <<>> is None, <<n>> is Some(n)).
RustType(a, l, v, g, c) ==
    [annotations |-> a, libraries |-> l, value |-> v, generics |-> g, counter |-> c]

make_rust_type_with_no_libraries(value, c) == RustType(<<>>, {}, value, <<>>, c)

\* Variant of ArrayRustType that collapses an array of byte arrays as well.
ArrayRustType_CollapseNested(i) ==
    IF i.value \in {"u8", "Base64Data"}
    THEN RustType(i.annotations,
                  i.libraries \cup {"super::super::encodings::Base64Data"},
                  "Base64Data", i.generics, i.counter)
    ELSE RustType(i.annotations, i.libraries, "Vec<" \o i.value \o ">",
                  i.generics, i.counter)

\* GoType::ArrayType, given the translated element i.
ArrayRustType(i) ==
    IF i.value = "u8"
    THEN RustType(i.annotations,
                  i.libraries \cup {"super::super::encodings::Base64Data"},
                  "Base64Data", i.generics, i.counter)
    ELSE RustType(i.annotations, i.libraries, "Vec<" \o i.value \o ">",
                  i.generics, i.counter)

\* Variant of PointerRustType that leaves an already optional target as it is.
PointerRustType_Collapse(data) ==
    IF StartsWith(data.value, "Option<") THEN data
    ELSE RustType(data.annotations, data.libraries, "Option<" \o data.value \o ">",
                  data.generics, data.counter)

\* GoType::PointerType, given the translated target data.
PointerRustType(data) ==
    RustType(data.annotations, data.libraries, "Option<" \o data.value \o ">",
             data.generics, data.counter)

\* GoType::MapType: the local `generics` the key and value are translated against.
MapCounterIn(c) == IF c = <<>> THEN 0 ELSE c[1]

\* Variant of MapCounterOut without the write-back `*generic_counter = generics`.
MapCounterOut_NoWriteBack(c, g) == c

\* GoType::MapType: the caller's counter after `*generic_counter = generics`.
MapCounterOut(c, g) == IF c = <<>> THEN <<>> ELSE <<g>>

\* GoType::MapType, given the translated key and value and the caller's counter.
MapRustType(key_data, value_data, c) ==
    RustType(key_data.annotations \o value_data.annotations,
             key_data.libraries \cup value_data.libraries
                 \cup {"std::collections::HashMap"},
             "HashMap<" \o key_data.value \o ", " \o value_data.value \o ">",
             key_data.generics \o value_data.generics,
             c)

\* Variant of DynamicRustType that formats the name before `*counter + 1`.
DynamicRustType_NameBeforeIncrement(c) ==
    IF c # <<>>
    THEN LET n == c[1] + 1
             next_generic == "T" \o ToString(c[1])
         IN RustType(<<"#[serde(bound=\"\")]">>,
                     {"serde_json::Value", "serde::de::DeserializeOwned",
                      "serde::ser::Serialize"},
                     next_generic,
                     <<RustGeneric(next_generic, <<"Value">>,
                                   <<"DeserializeOwned", "Serialize">>)>>,
                     <<n>>)
    ELSE RustType(<<>>, {"serde_json::Value"}, "Value", <<>>, c)

\* GoType::InterfaceType | GoType::JsonRawType.
DynamicRustType(c) ==
    IF c # <<>>
    THEN LET n == c[1] + 1
             next_generic == "T" \o ToString(n)
         IN RustType(<<"#[serde(bound=\"\")]">>,
                     {"serde_json::Value", "serde::de::DeserializeOwned",
                      "serde::ser::Serialize"},
                     next_generic,
                     <<RustGeneric(next_generic, <<"Value">>,
                                   <<"DeserializeOwned", "Serialize">>)>>,
                     <<n>>)
    ELSE RustType(<<>>, {"serde_json::Value"}, "Value", <<>>, c)

RECURSIVE translate_go_type_to_rust_type(_, _)
translate_go_type_to_rust_type(g, c) ==
    CASE g.tag = "StringType" -> make_rust_type_with_no_libraries("String", c)
      [] g.tag = "BoolType" -> make_rust_type_with_no_libraries("bool", c)
      [] g.tag = "ByteType" -> make_rust_type_with_no_libraries("u8", c)
      [] g.tag = "IntType" -> make_rust_type_with_no_libraries("i64", c)
      [] g.tag = "UnsignedIntType" -> make_rust_type_with_no_libraries("u64", c)
      [] g.tag = "FloatType" -> make_rust_type_with_no_libraries("f64", c)
      [] g.tag = "UserDefined" ->
            make_rust_type_with_no_libraries(to_camel_case(g.name), c)
      [] g.tag = "ArrayType" ->
            ArrayRustType(translate_go_type_to_rust_type(g.args[1], c))
      [] g.tag = "PointerType" ->
            PointerRustType(translate_go_type_to_rust_type(g.args[1], c))
      [] g.tag = "MapType" ->
            LET key_data == translate_go_type_to_rust_type(g.args[1], <<MapCounterIn(c)>>)
                value_data == translate_go_type_to_rust_type(g.args[2], key_data.counter)
            IN MapRustType(key_data, value_data, MapCounterOut(c, value_data.counter[1]))
      [] g.tag \in {"InterfaceType", "JsonRawType"} -> DynamicRustType(c)
      [] g.tag = "TimestampSecondsType" ->
            RustType(<<>>, {"super::super::encodings::SecondTimestamp"},
                     "SecondTimestamp", <<>>, c)
      [] g.tag = "TimestampMillisecondsType" ->
            RustType(<<>>, {"super::super::encodings::MillisecondTimestamp"},
                     "MillisecondTimestamp", <<>>, c)
      [] g.tag = "TimeType" ->
            RustType(<<>>, {"chrono::DateTime", "chrono::Utc"}, "DateTime<Utc>", <<>>, c)

NoRustType == RustType(<<>>, {}, "", <<>>, <<>>)

-----------------------------------------------------------------------------
(* Struct fields: syntax, FieldDef, JsonMapping *)

PointerNode == Node("pointer", "*", <<>>)
DocComment(t) == Node("doc_comment", t, <<>>)

\* `Name [*]type`
FieldDecl(name, is_pointer, type) ==
    Node("struct_field_decl", "",
         <<Ident(name)>> \o (IF is_pointer THEN <<PointerNode>> ELSE <<>>)
             \o <<Node("struct_field_type", "", <<type>>)>>)

\* `[*]Name`: an embedded (anonymous) field
EmbeddedDecl(is_pointer, name) ==
    Node("struct_field_decl", "",
         (IF is_pointer THEN <<PointerNode>> ELSE <<>>)
             \o <<Node("struct_embedded_field", name, <<Ident(name)>>)>>)

\* `json:"name[,omitempty]"` [// comment]
JsonMappingNode(name, omit, comment) ==
    Node("json_mapping", "",
         <<Node("json_name", name, <<>>)>>
             \o (IF omit THEN <<Node("omit_empty", ",omitempty", <<>>)>> ELSE <<>>)
             \o (IF comment = "" THEN <<>> ELSE <<Node("any_comment", comment, <<>>)>>))

\* docs: sequence of doc_comment nodes; json: <<>> or <<json_mapping node>>
StructField(docs, decl, json) ==
    Node("struct_field", "", docs \o <<decl>> \o json)

mangle(s0) ==
    CASE s0 = "ref" -> "ref_"
      [] s0 = "type" -> "type_"
      [] OTHER -> s0

\* str::trim over spaces.
RECURSIVE TrimStart(_)
TrimStart(s0) ==
    IF s0 # "" /\ Char(s0, 1) = " " THEN TrimStart(SubSeq(s0, 2, Len(s0))) ELSE s0
RECURSIVE TrimEnd(_)
TrimEnd(s0) ==
    IF s0 # "" /\ Char(s0, Len(s0)) = " " THEN TrimEnd(SubSeq(s0, 1, Len(s0) - 1)) ELSE s0

\* First position of `pat` in s0 at or after i, 0 when there is none.
RECURSIVE FindFrom(_, _, _)
FindFrom(s0, pat, i) ==
    IF i + Len(pat) - 1 > Len(s0) THEN 0
    ELSE IF SubSeq(s0, i, i + Len(pat) - 1) = pat THEN i
    ELSE FindFrom(s0, pat, i + 1)

\* str::replace: every occurrence, left to right.
RECURSIVE ReplaceAll(_, _, _)
ReplaceAll(s0, from, to) ==
    LET i == FindFrom(s0, from, 1) IN
    IF from = "" \/ i = 0 THEN s0
    ELSE SubSeq(s0, 1, i - 1) \o to
             \o ReplaceAll(SubSeq(s0, i + Len(from), Len(s0)), from, to)

parse_comment(c) ==
    LET i == FindFrom(c, "//", 1)
        removed == IF i = 0 THEN c
                   ELSE SubSeq(c, 1, i - 1) \o SubSeq(c, i + 2, Len(c))
    IN TrimEnd(TrimStart(removed))

\* Vec<String>::join
RECURSIVE Join(_, _)
Join(ss, sep) ==
    IF ss = <<>> THEN ""
    ELSE IF Len(ss) = 1 THEN ss[1]
    ELSE ss[1] \o sep \o Join(Tail(ss), sep)

SelectRule(ps, r) == SelectSeq(ps, LAMBDA n : n.rule = r)

\* struct JsonMapping; comment is <<>> or <<c>>.
parse_json_mapping(ps) ==
    [name |-> SelectRule(ps, "json_name")[1].text,
     comment |-> IF SelectRule(ps, "any_comment") = <<>> THEN <<>>
                 ELSE <<parse_comment(SelectRule(ps, "any_comment")[1].text)>>,
     omit_empty |-> SelectRule(ps, "omit_empty") # <<>>]

\* struct FieldDef; json_name is <<>> (None) or <<name>> (Some(name)).
FieldDef(n, j, c, o, g, e) ==
    [name |-> n, json_name |-> j, comments |-> c, omit_empty |-> o,
     go_type |-> g, embedded |-> e]

NoFieldDef == FieldDef("", <<>>, <<>>, FALSE, NoGoType, FALSE)

\* Variant of FinalOmitEmpty that looks at the tag only.
FinalOmitEmpty_TagOnly(tag_omit_empty, is_pointer) == tag_omit_empty

\* omit_empty of a field: its tag's flag, and always true behind a pointer.
FinalOmitEmpty(tag_omit_empty, is_pointer) ==
    IF is_pointer THEN TRUE ELSE tag_omit_empty

\* parse_struct_field: Ok(FieldDef), or the panic raised while parsing its type.
parse_struct_field(ps) ==
    LET decl == SelectRule(ps, "struct_field_decl")[1].inner
        json == IF SelectRule(ps, "json_mapping") = <<>> THEN <<>>
                ELSE <<parse_json_mapping(SelectRule(ps, "json_mapping")[1].inner)>>
        docs == [i \in 1..Len(SelectRule(ps, "doc_comment")) |->
                    parse_comment(SelectRule(ps, "doc_comment")[i].text)]
        is_pointer == SelectRule(decl, "pointer") # <<>>
        embedded == SelectRule(decl, "struct_embedded_field") # <<>>
        name == IF embedded
                THEN mangle(SelectRule(decl, "struct_embedded_field")[1].text)
                ELSE mangle(SelectRule(decl, "ident")[1].text)
        parsed == IF embedded
                  THEN parse_go_type(SelectRule(decl, "struct_embedded_field")[1].inner)
                  ELSE parse_go_type(SelectRule(decl, "struct_field_type")[1].inner)
        json_name == IF json = <<>> THEN <<>> ELSE <<json[1].name>>
        omit_empty == FinalOmitEmpty(IF json = <<>> THEN FALSE ELSE json[1].omit_empty,
                                     is_pointer)
        comments == IF json # <<>> /\ json[1].comment # <<>>
                    THEN (IF docs # <<>> THEN docs \o <<"">> ELSE docs) \o json[1].comment
                    ELSE docs
    IN IF ~parsed.ok THEN [ok |-> FALSE, val |-> NoFieldDef, msg |-> parsed.msg]
       ELSE [ok |-> TRUE,
             val |-> FieldDef(name, json_name, comments, omit_empty, parsed.val, embedded),
             msg |-> ""]

\* parse_struct_fields: every field parsed in order; the first failure aborts.
parse_struct_fields(ps) ==
    LET rs == [i \in 1..Len(ps) |-> parse_struct_field(ps[i].inner)] IN
    IF \E i \in 1..Len(ps) : ~rs[i].ok
    THEN [ok |-> FALSE, val |-> <<>>,
          msg |-> rs[CHOOSE i \in 1..Len(ps) :
                        ~rs[i].ok /\ \A j \in 1..(i - 1) : rs[j].ok].msg]
    ELSE [ok |-> TRUE, val |-> [i \in 1..Len(ps) |-> rs[i].val], msg |-> ""]

-----------------------------------------------------------------------------
(* parse_struct: building the codegen Struct *)

\* Regex "^HashMap<.+>$"
HASHMAP_RE(s0) == StartsWith(s0, "HashMap<") /\ EndsWith(s0, ">") /\ Len(s0) >= 10

\* The back-quote character of format!("`{}`", ..); a TLA+ string cannot hold
\* it, so the caret stands for it.
BackQuote == "^"

\* codegen::Field; documentation is <<>> or <<text>>.
Field(n, t) == [name |-> n, ty |-> t, vis |-> "", documentation |-> <<>>, annotation |-> <<>>]

\* codegen::Struct after Struct::new, vis and the five derives, and the doc
\* comment with the Go name rewritten to the quoted Rust name.
NewStruct(struct_name, comments) ==
    [name |-> to_camel_case(struct_name),
     vis |-> "pub",
     derive |-> <<"Debug", "Clone", "PartialEq", "Deserialize", "Serialize">>,
     doc |-> IF comments = <<>> THEN <<>>
             ELSE <<Join([i \in 1..Len(comments) |->
                            ReplaceAll(comments[i], struct_name,
                                       BackQuote \o to_camel_case(struct_name)
                                           \o BackQuote)],
                         "\n")>>,
     generics |-> <<>>,
     bounds |-> <<>>,
     fields |-> <<>>]

NoStruct ==
    [name |-> "", vis |-> "", derive |-> <<>>, doc |-> <<>>, generics |-> <<>>,
     bounds |-> <<>>, fields |-> <<>>]

\* rust_struct.generic(..) for each generic of the translated type.
\* Variant of GenericDecls that declares every generic without its default.
GenericDecls_NoDefault(gs) == [i \in 1..Len(gs) |-> gs[i].value]

GenericDecls(gs) ==
    [i \in 1..Len(gs) |->
        IF gs[i].default = <<>> THEN gs[i].value
        ELSE gs[i].value \o "=" \o gs[i].default[1]]

\* Variant of BoundDecls that declares only the first bound of each generic.
RECURSIVE BoundDecls_FirstBoundOnly(_)
BoundDecls_FirstBoundOnly(gs) ==
    IF gs = <<>> THEN <<>>
    ELSE (IF gs[1].bounds = <<>> THEN <<>>
          ELSE <<<<gs[1].value, gs[1].bounds[1]>>>>)
             \o BoundDecls_FirstBoundOnly(Tail(gs))

\* rust_struct.bound(..) for each bound of each generic, in order.
RECURSIVE BoundDecls(_)
BoundDecls(gs) ==
    IF gs = <<>> THEN <<>>
    ELSE [i \in 1..Len(gs[1].bounds) |-> <<gs[1].value, gs[1].bounds[i]>>]
             \o BoundDecls(Tail(gs))

\* Variant of OmitEmptyWrap that wraps a HashMap as well.
OmitEmptyWrap_AlsoMaps(omit_empty, rust_type) ==
    IF omit_empty THEN "Option<" \o rust_type \o ">" ELSE rust_type

\* "Make fields optional if they are optional in the json."
OmitEmptyWrap(omit_empty, rust_type) ==
    IF omit_empty /\ ~HASHMAP_RE(rust_type)
    THEN "Option<" \o rust_type \o ">"
    ELSE rust_type

\* Variant of FieldAnnotations that renames every field with a serialized name.
FieldAnnotations_AlwaysRename(f, member_name, annotations) ==
    annotations
        \o (IF f.json_name # <<>>
            THEN <<"#[serde(rename = \"" \o f.json_name[1] \o "\")]">>
            ELSE <<>>)
        \o (IF f.embedded THEN <<"#[serde(flatten)]">> ELSE <<>>)

\* Variant of FieldAnnotations where an embedded field is flattened instead of
\* renamed.
FieldAnnotations_FlattenInsteadOfRename(f, member_name, annotations) ==
    annotations
        \o (IF f.embedded THEN <<"#[serde(flatten)]">>
            ELSE IF f.json_name # <<>> /\ f.json_name[1] # member_name
            THEN <<"#[serde(rename = \"" \o f.json_name[1] \o "\")]">>
            ELSE <<>>)

\* rust_data.annotations after the rename and flatten pushes.
FieldAnnotations(f, member_name, annotations) ==
    annotations
        \o (IF f.json_name # <<>> /\ f.json_name[1] # member_name
            THEN <<"#[serde(rename = \"" \o f.json_name[1] \o "\")]">>
            ELSE <<>>)
        \o (IF f.embedded THEN <<"#[serde(flatten)]">> ELSE <<>>)

\* "Behavior overrides for specific types": the field pushed to field_defs.
OverrideField(member_name, rust_type) ==
    IF rust_type = "String"
    THEN [Field(member_name, "Option<String>") EXCEPT !.annotation =
             <<"#[serde(deserialize_with = \"deserialize_lambda_string\")]",
               "#[serde(default)]">>]
    ELSE IF HASHMAP_RE(rust_type)
    THEN [Field(member_name, rust_type) EXCEPT !.annotation =
             <<"#[serde(deserialize_with = \"deserialize_lambda_map\")]",
               "#[serde(default)]">>]
    ELSE Field(member_name, rust_type)

\* The libraries the overrides insert.
OverrideLibraries(rust_type) ==
    IF rust_type = "String" \/ HASHMAP_RE(rust_type) THEN {"custom_serde::*"} ELSE {}

\* Variant of AllAnnotations that puts rust_data's annotations first.
AllAnnotations_TranslatorFirst(field_annotation, annotations) ==
    annotations \o field_annotation

\* The field's annotations after the last loop: its own, then rust_data's.
AllAnnotations(field_annotation, annotations) ==
    IF annotations # <<>> THEN field_annotation \o annotations ELSE field_annotation

\* One pass of `for f in fields`: the field pushed to the struct.
EmitField(f, data) ==
    LET member_name == mangle(to_snake_case(f.name))
        rust_type == OmitEmptyWrap(f.omit_empty, data.value)
        annotations == FieldAnnotations(f, member_name, data.annotations)
        field == OverrideField(member_name, rust_type)
    IN [field EXCEPT
           !.vis = "pub",
           !.documentation = IF f.comments # <<>> THEN <<Join(f.comments, "\n")>>
                             ELSE <<>>,
           !.annotation = AllAnnotations(field.annotation, annotations)]

-----------------------------------------------------------------------------
(* codegen::Scope *)

\* str::rsplitn(2, "::"): <<after the last "::", before it>>.
RECURSIVE LastIndexOf(_, _, _)
LastIndexOf(s0, pat, i) ==
    IF i < 1 THEN 0
    ELSE IF SubSeq(s0, i, i + Len(pat) - 1) = pat THEN i
    ELSE LastIndexOf(s0, pat, i - 1)

RSplit2(lib) ==
    LET i == LastIndexOf(lib, "::", Len(lib) - 1) IN
    <<SubSeq(lib, i + 2, Len(lib)), SubSeq(lib, 1, i - 1)>>

\* The elements of a set of strings, ascending (Vec::sort).
RECURSIVE SortStrings(_)
SortStrings(S) ==
    IF S = {} THEN <<>>
    ELSE LET m == CHOOSE x \in S : \A y \in S \ {x} : StrLess(x, y)
         IN <<m>> \o SortStrings(S \ {m})

\* Scope::import(path, ty): imports is an insertion-ordered map keyed by
\* (path, ty); an import already present is left where it is.
Import(sc, path, ty) ==
    IF \E i \in 1..Len(sc.imports) : sc.imports[i] = <<path, ty>>
    THEN sc
    ELSE [sc EXCEPT !.imports = Append(@, <<path, ty>>)]

RECURSIVE ImportAll(_, _)
ImportAll(sc, libs) ==
    IF libs = <<>> THEN sc
    ELSE LET parts == RSplit2(libs[1]) IN
         ImportAll(Import(sc, parts[2], parts[1]), Tail(libs))

\* Variant of SortedLibraries that leaves out the sort: the set's elements in
\* one of the orders its iterator can give.
SortedLibraries_Unsorted(libs) ==
    LET s == SortStrings(libs) IN [i \in 1..Len(s) |-> s[Len(s) + 1 - i]]

\* ordered_libs: the set's elements collected into a Vec, then sorted.
SortedLibraries(libs) == SortStrings(libs)

add_sorted_imports(sc, libs) == ImportAll(sc, SortedLibraries(libs))

NewScope == [items |-> <<>>, imports |-> <<>>]

push_struct(sc, st) == [sc EXCEPT !.items = Append(@, [kind |-> "struct", struct |-> st, raw |-> ""])]
raw(sc, text) == [sc EXCEPT !.items = Append(@, [kind |-> "raw", struct |-> NoStruct, raw |-> text])]

RECURSIVE RawAll(_, _)
RawAll(sc, texts) ==
    IF texts = <<>> THEN sc ELSE RawAll(raw(sc, texts[1]), Tail(texts))

-----------------------------------------------------------------------------
(* Top-level declarations *)

StructDefNode(docs, name, field_nodes) ==
    Node("struct_def", "",
         docs \o <<Node("struct_preamble", "",
                        <<Node("struct_name", name, <<Ident(name)>>)>>)>>
              \o (IF field_nodes = <<>> THEN <<>>
                  ELSE <<Node("struct_fields", "", field_nodes)>>))

LocalTypeAlias(name, target) ==
    Node("type_alias", "",
         <<Node("local_type_alias", "",
                <<Ident(name), Node("type_alias_target", "", <<target>>)>>)>>)

PackageTypeAlias(name, pkg) ==
    Node("type_alias", "",
         <<Node("package_type_alias", "", <<Ident(name), PackageIdent(pkg)>>)>>)

\* The name and field nodes parse_struct reads from a struct_def node.
StructName(p) ==
    SelectRule(SelectRule(p.inner, "struct_preamble")[1].inner, "struct_name")[1].text
StructFieldNodes(p) ==
    IF SelectRule(p.inner, "struct_fields") = <<>> THEN <<>>
    ELSE SelectRule(p.inner, "struct_fields")[1].inner
StructComments(p) ==
    [i \in 1..Len(SelectRule(p.inner, "doc_comment")) |->
        parse_comment(SelectRule(p.inner, "doc_comment")[i].text)]

\* parse_type_alias: Ok with val = <<name, RustType>>, or the panic of its target.
parse_type_alias(ps) ==
    LET a == ps[Len(ps)]
        name == mangle(SelectRule(a.inner, "ident")[1].text)
        target == IF a.rule = "local_type_alias"
                  THEN parse_go_type(SelectRule(a.inner, "type_alias_target")[1].inner)
                  ELSE parse_go_package_ident(SelectRule(a.inner, "package_ident")[1].text)
    IN IF ~target.ok THEN [ok |-> FALSE, val |-> <<>>, msg |-> target.msg]
       ELSE [ok |-> TRUE,
             val |-> <<name, translate_go_type_to_rust_type(target.val, <<>>)>>,
             msg |-> ""]

SkippedRules ==
    {"any_comment", "constant_def", "package_def", "import", "import_multiple",
     "function", "enum_options"}

-----------------------------------------------------------------------------
(* parse_go_string and parse_struct, step by step *)

\* Locals of parse_struct when no struct is in hand.
NoStructLocals ==
    /\ pairs' = <<>>
    /\ fields' = <<>>
    /\ idx' = 0
    /\ rust_struct' = NoStruct
    /\ libraries' = {}
    /\ generics' = 0
    /\ rust_data' = NoRustType

\* A panic unwinds: every local is dropped and nothing is returned.
Abort ==
    /\ pc' = "panicked"
    /\ scope' = NewScope
    /\ NoStructLocals
    /\ ordered_libs' = <<>>
    /\ UNCHANGED output

\* The `for pair in pairs` loop of parse_go_string has a next pair to match.
AtDispatch(limit) == pc = "dispatch" /\ nitems < limit

\* Rule::struct_def, up to the `for f in fields` loop of parse_struct.
StructDef(p, limit) ==
    /\ AtDispatch(limit)
    /\ p.rule = "struct_def"
    /\ rule' = p.rule
    /\ nitems' = nitems + 1
    /\ LET r == parse_struct_fields(StructFieldNodes(p)) IN
       IF ~r.ok THEN Abort
       ELSE /\ pc' = "struct"
            /\ pairs' = StructFieldNodes(p)
            /\ fields' = r.val
            /\ idx' = 0
            /\ rust_struct' = NewStruct(StructName(p), StructComments(p))
            /\ libraries' = {}
            /\ generics' = 0
            /\ rust_data' = NoRustType
            /\ UNCHANGED <<scope, output, ordered_libs>>
    /\ UNCHANGED typeVars

\* One pass of `for f in fields` in parse_struct.
TranslateField ==
    /\ pc = "struct"
    /\ idx < Len(fields)
    /\ LET f == fields[idx + 1]
           data == translate_go_type_to_rust_type(f.go_type, <<generics>>)
           rust_type == OmitEmptyWrap(f.omit_empty, data.value)
       IN /\ rust_data' = data
          /\ generics' = data.counter[1]
          /\ libraries' = libraries \cup data.libraries
                              \cup OverrideLibraries(rust_type)
          /\ rust_struct' = [rust_struct EXCEPT
                 !.generics = @ \o GenericDecls(data.generics),
                 !.bounds = @ \o BoundDecls(data.generics),
                 !.fields = Append(@, EmitField(f, data))]
    /\ idx' = idx + 1
    /\ UNCHANGED <<pc, nitems, scope, output, pairs, fields, rule, ordered_libs>>
    /\ UNCHANGED typeVars

\* parse_struct returns; the struct is pushed and its imports added, sorted.
PushStruct ==
    /\ pc = "struct"
    /\ idx = Len(fields)
    /\ scope' = add_sorted_imports(push_struct(scope, rust_struct), libraries)
    /\ ordered_libs' = SortedLibraries(libraries)
    /\ pc' = "dispatch"
    /\ NoStructLocals
    /\ UNCHANGED <<nitems, output, rule>>
    /\ UNCHANGED typeVars

\* Rule::type_alias
TypeAlias(p, limit) ==
    /\ AtDispatch(limit)
    /\ p.rule = "type_alias"
    /\ rule' = p.rule
    /\ nitems' = nitems + 1
    /\ LET alias == parse_type_alias(p.inner) IN
       IF ~alias.ok THEN Abort
       ELSE LET name == alias.val[1]
                target == alias.val[2]
            IN /\ scope' = raw(RawAll(add_sorted_imports(scope, target.libraries),
                                      [i \in 1..Len(target.annotations) |->
                                          "#[" \o target.annotations[i] \o "]"]),
                               "pub type " \o name \o " = " \o target.value \o ";")
               /\ ordered_libs' = SortedLibraries(target.libraries)
               /\ UNCHANGED <<pc, output, pairs, fields, idx, rust_struct,
                              libraries, generics, rust_data>>
    /\ UNCHANGED typeVars

\* "Skip some things for now."
Skip(p, limit) ==
    /\ AtDispatch(limit)
    /\ p.rule \in SkippedRules
    /\ rule' = p.rule
    /\ nitems' = nitems + 1
    /\ UNCHANGED <<pc, scope, output, pairs, fields, idx, rust_struct, libraries,
                   generics, rust_data, ordered_libs>>
    /\ UNCHANGED typeVars

\* Variant of Unexpected that skips the item and goes on with the next pair.
Unexpected_SkipAndContinue(p, limit) ==
    /\ AtDispatch(limit)
    /\ p.rule \notin SkippedRules \cup {"struct_def", "type_alias"}
    /\ rule' = p.rule
    /\ nitems' = nitems + 1
    /\ UNCHANGED <<pc, scope, output, pairs, fields, idx, rust_struct, libraries,
                   generics, rust_data, ordered_libs>>
    /\ UNCHANGED typeVars

\* "Unexpected item at top-level"
Unexpected(p, limit) ==
    /\ AtDispatch(limit)
    /\ p.rule \notin SkippedRules \cup {"struct_def", "type_alias"}
    /\ rule' = p.rule
    /\ nitems' = nitems + 1
    /\ Abort
    /\ UNCHANGED typeVars

\* The pairs are exhausted: Ok((GoCode, RustCode(scope))).
Return ==
    /\ pc = "dispatch"
    /\ pc' = "returned"
    /\ output' = <<scope>>
    /\ UNCHANGED <<nitems, scope, pairs, fields, idx, rust_struct, libraries,
                   generics, rust_data, rule, ordered_libs>>
    /\ UNCHANGED typeVars

InitFile ==
    /\ pc = "dispatch"
    /\ nitems = 0
    /\ scope = NewScope
    /\ output = <<>>
    /\ pairs = <<>>
    /\ fields = <<>>
    /\ idx = 0
    /\ rust_struct = NoStruct
    /\ libraries = {}
    /\ generics = 0
    /\ rust_data = NoRustType
    /\ rule = "none"
    /\ ordered_libs = <<>>
    /\ src = Interface
    /\ counter = <<>>
    /\ go_type = Panic("")
    /\ rust = NoRustType

-----------------------------------------------------------------------------
(* Inputs *)

MaxFieldDepth == 1   \* nesting depth of the field types drawn in SpecField

PrimitiveTexts == {"string", "int", "uint32", "float64", "bool", "byte", "complex64"}
IdentTexts == {"MyType", "SNSEvent", "String", "SecondsEpochTime", "MilliSecondsEpochTime"}
PackageIdentTexts == {"time.Time", "json.RawMessage", "net.IP"}
KeyTexts == {"string", "int", "MyType", "interface{}"}

LeafNodes ==
    {Primitive(t) : t \in PrimitiveTexts} \cup {Ident(t) : t \in IdentTexts}
        \cup {PackageIdent(t) : t \in PackageIdentTexts} \cup {Interface}

\* What the array rule holds: a primitive, an identifier, a map or an array.
ArrayElements(S) == {n \in S : n.rule \in {"primitive", "ident", "map", "array"}}

\* Every type node nested at most d deep.
RECURSIVE TypeNodes(_)
TypeNodes(d) ==
    IF d = 0 THEN LeafNodes
    ELSE LET S == TypeNodes(d - 1) IN
         LeafNodes \cup {Array(n) : n \in ArrayElements(S)}
                   \cup {Map(k, v) : k \in KeyTexts, v \in S}
                   \cup {PointerTo(v) : v \in S}

FieldTypeNodes == TypeNodes(MaxFieldDepth)

Counters == {<<>>} \cup {<<n>> : n \in 0..MaxCounter}

\* Tags of a field: none, or a serialized name with or without omitempty.
JsonTags ==
    {<<>>} \cup {<<JsonMappingNode(n, o, "")>> : n \in {"body", "eventVersion"}, o \in BOOLEAN}
           \cup {<<JsonMappingNode("type", FALSE, "// the kind")>>,
                 <<JsonMappingNode("my_type", FALSE, "")>>}

FieldDocs == {<<>>, <<DocComment("// Version of MyEvent")>>}

FieldNames == {"EventVersion", "Type", "body"}

\* The structs of SpecField: MyEvent with one named or one embedded field.
NamedFieldStruct(n, ptr, t, j) ==
    StructDefNode(<<>>, "MyEvent", <<StructField(<<>>, FieldDecl(n, ptr, t), j)>>)
EmbeddedFieldStruct(d, ptr, n, j) ==
    StructDefNode(<<DocComment("// MyEvent is an event")>>, "MyEvent",
                  <<StructField(d, EmbeddedDecl(ptr, n), j)>>)

\* The struct fields of Spec: a dynamic field and a map of dynamic values.
SmallFields ==
    {StructField(<<DocComment("// Body of MyEvent")>>,
                 FieldDecl("Body", FALSE, Interface),
                 <<JsonMappingNode("body", FALSE, "")>>),
     StructField(<<>>, FieldDecl("Attrs", FALSE, Map("string", Interface)),
                 <<JsonMappingNode("attributes", TRUE, "")>>)}

RECURSIVE SeqsUpTo(_, _)
SeqsUpTo(S, n) ==
    IF n = 0 THEN {<<>>}
    ELSE LET R == SeqsUpTo(S, n - 1) IN
         R \cup {Append(q, x) : q \in {r \in R : Len(r) = n - 1}, x \in S}

Structs ==
    {StructDefNode(<<>>, "MyEvent", fs) : fs \in SeqsUpTo(SmallFields, MaxFields)}

Aliases ==
    {LocalTypeAlias("Payload", Map("string", Interface)),
     LocalTypeAlias("type", Ident("MyType")),
     PackageTypeAlias("Raw", "json.RawMessage"),
     PackageTypeAlias("Addr", "net.IP")}

Skipped == {Node("package_def", "", <<Ident("events")>>)}
Unknown == {Node("interface_def", "", <<>>)}

-----------------------------------------------------------------------------
(* Specifications *)

\* parse_go_string over inputs of at most MaxItems declarations.
Init == InitFile

DispatchStruct == AtDispatch(MaxItems) /\ \E p \in Structs : StructDef(p, MaxItems)
DispatchAlias == AtDispatch(MaxItems) /\ \E p \in Aliases : TypeAlias(p, MaxItems)
DispatchSkip == AtDispatch(MaxItems) /\ \E p \in Skipped : Skip(p, MaxItems)
DispatchUnexpected == AtDispatch(MaxItems) /\ \E p \in Unknown : Unexpected(p, MaxItems)

Next ==
    \/ DispatchStruct
    \/ TranslateField
    \/ PushStruct
    \/ DispatchAlias
    \/ DispatchSkip
    \/ DispatchUnexpected
    \/ Return

Spec == Init /\ [][Next]_vars

\* parse_go_string over inputs of one struct with one field.
NamedFieldStructDef ==
    /\ AtDispatch(1)
    /\ \E n \in FieldNames, ptr \in BOOLEAN, t \in FieldTypeNodes, j \in JsonTags :
          StructDef(NamedFieldStruct(n, ptr, t, j), 1)

EmbeddedFieldStructDef ==
    /\ AtDispatch(1)
    /\ \E d \in FieldDocs, ptr \in BOOLEAN, n \in IdentTexts, j \in JsonTags :
          StructDef(EmbeddedFieldStruct(d, ptr, n, j), 1)

NextField ==
    \/ NamedFieldStructDef
    \/ EmbeddedFieldStructDef
    \/ TranslateField
    \/ PushStruct
    \/ Return

SpecField == InitFile /\ [][NextField]_vars

\* parse_go_type followed by translate_go_type_to_rust_type on one type node.
InitType ==
    /\ pc = "node"
    /\ src \in TypeNodes(MaxDepth)
    /\ counter \in Counters
    /\ go_type = Panic("")
    /\ rust = NoRustType
    /\ nitems = 0
    /\ scope = NewScope
    /\ output = <<>>
    /\ pairs = <<>>
    /\ fields = <<>>
    /\ idx = 0
    /\ rust_struct = NoStruct
    /\ libraries = {}
    /\ generics = 0
    /\ rust_data = NoRustType
    /\ rule = "none"
    /\ ordered_libs = <<>>

ParseGoType ==
    /\ pc = "node"
    /\ go_type' = parse_go_type(<<src>>)
    /\ pc' = IF go_type'.ok THEN "parsed" ELSE "panicked"
    /\ UNCHANGED <<src, counter, rust>>
    /\ UNCHANGED fileVars

Translate ==
    /\ pc = "parsed"
    /\ rust' = translate_go_type_to_rust_type(go_type.val, counter)
    /\ pc' = "translated"
    /\ UNCHANGED <<src, counter, go_type>>
    /\ UNCHANGED fileVars

NextType == ParseGoType \/ Translate

SpecType == InitType /\ [][NextType]_vars

-----------------------------------------------------------------------------
(* Properties of the type parser and the type translator (SpecType) *)

Contains(xs, x) == \E i \in 1..Len(xs) : xs[i] = x

BoundAnnotation == "#[serde(bound=\"\")]"

\* The number of InterfaceType and JsonRawType occurrences in a GoType.
RECURSIVE CountDynamic(_)
CountDynamic(g) ==
    IF g.tag \in {"InterfaceType", "JsonRawType"} THEN 1
    ELSE IF Len(g.args) = 0 THEN 0
    ELSE IF Len(g.args) = 1 THEN CountDynamic(g.args[1])
    ELSE CountDynamic(g.args[1]) + CountDynamic(g.args[2])

\* The Go names of the primitive types.
GoPrimitiveNames ==
    {"string", "int", "int32", "int64", "uint", "uint32", "uint64",
     "float", "float32", "float64", "bool", "byte"}

PrimitiveTags ==
    {"StringType", "IntType", "UnsignedIntType", "FloatType", "BoolType", "ByteType"}

\* A map somewhere in the syntax tree has a key that is no primitive.
RECURSIVE HasNonPrimitiveKey(_)
HasNonPrimitiveKey(n) ==
    \/ n.rule = "key_type" /\ n.text \notin GoPrimitiveNames
    \/ \E i \in 1..Len(n.inner) : HasNonPrimitiveKey(n.inner[i])

\* Every MapType of a GoType has a primitive key.
RECURSIVE KeysArePrimitive(_)
KeysArePrimitive(g) ==
    /\ g.tag = "MapType" => g.args[1].tag \in PrimitiveTags
    /\ \A i \in 1..Len(g.args) : KeysArePrimitive(g.args[i])

\* C4 (as stated): translated without a generic counter, a type that holds an
\* InterfaceType or JsonRawType at any depth beneath ArrayType, PointerType or
\* MapType renders it as Value, declares no generic and carries no
\* bound-relaxing annotation.
C4_NoCounterRendersValue ==
    (pc = "translated" /\ counter = <<>> /\ CountDynamic(go_type.val) > 0) =>
        /\ FindFrom(rust.value, "Value", 1) > 0
        /\ rust.generics = <<>>
        /\ ~Contains(rust.annotations, BoundAnnotation)

\* C5: a map whose key is not a primitive never gets through the type parser:
\* parsing fails, no MapType with such a key is built and nothing is
\* translated.
C5_NonPrimitiveKeyFails ==
    /\ HasNonPrimitiveKey(src) =>
          /\ pc \in {"node", "panicked"}
          /\ pc = "panicked" => ~go_type.ok
          /\ rust = NoRustType
    /\ pc \in {"parsed", "translated"} => KeysArePrimitive(go_type.val)

C5_Witness ==
    /\ pc = "panicked"
    /\ src = Map("MyType", Primitive("string"))
    /\ go_type = Panic("not implemented: missing go type primitive")

\* C6: a MapType translated with a counter at c hands the caller back a counter
\* at c plus the number of dynamic occurrences in its key and value, and the
\* generics it returns are T(c+1), T(c+2), ... in key-then-value order.
C6_MapSharesOneCounter ==
    (pc = "translated" /\ go_type.val.tag = "MapType" /\ counter # <<>>) =>
        LET c == counter[1]
            n == CountDynamic(go_type.val)
        IN /\ rust.counter = <<c + n>>
           /\ Len(rust.generics) = n
           /\ \A i \in 1..n : rust.generics[i].value = "T" \o ToString(c + i)

C6_Witness ==
    /\ pc = "translated"
    /\ counter = <<1>>
    /\ go_type.val = MapType(StringType, InterfaceType)
    /\ rust.counter = <<2>>
    /\ rust.value = "HashMap<String, T2>"

\* C10: ArrayType(ByteType) renders as Base64Data with exactly the one encoding
\* import; ArrayType(ArrayType(ByteType)) renders as Vec<Base64Data> and is
\* not collapsed again; an array of any element that does not render as u8
\* renders as Vec<element> with the element's imports, annotations and
\* generics unchanged.
C10_ArrayRendering ==
    pc = "translated" =>
        /\ go_type.val = ArrayType(ByteType) =>
              /\ rust.value = "Base64Data"
              /\ rust.libraries = {"super::super::encodings::Base64Data"}
        /\ go_type.val = ArrayType(ArrayType(ByteType)) =>
              /\ rust.value = "Vec<Base64Data>"
              /\ rust.libraries = {"super::super::encodings::Base64Data"}
        /\ go_type.val.tag = "ArrayType" =>
              LET i == translate_go_type_to_rust_type(go_type.val.args[1], counter) IN
              i.value # "u8" =>
                  /\ rust.value = "Vec<" \o i.value \o ">"
                  /\ rust.libraries = i.libraries
                  /\ rust.annotations = i.annotations
                  /\ rust.generics = i.generics

C10_Witness ==
    /\ pc = "translated"
    /\ go_type.val = ArrayType(ArrayType(ByteType))
    /\ rust.value = "Vec<Base64Data>"

-----------------------------------------------------------------------------
(* Properties of the fields a struct emits (SpecField) *)

\* The loop of parse_struct has consumed a field; the names below speak of the
\* field it consumed last.
FieldConsumed == pc = "struct" /\ idx >= 1

Consumed == fields[idx]
ConsumedDecl == SelectRule(pairs[idx].inner, "struct_field_decl")[1]
Emitted == rust_struct.fields[idx]

HasPointerMarker == SelectRule(ConsumedDecl.inner, "pointer") # <<>>

HasOmitEmptyTag ==
    LET j == SelectRule(pairs[idx].inner, "json_mapping") IN
    j # <<>> /\ SelectRule(j[1].inner, "omit_empty") # <<>>

StringDecode == "#[serde(deserialize_with = \"deserialize_lambda_string\")]"
MapDecode == "#[serde(deserialize_with = \"deserialize_lambda_map\")]"
DefaultAnnotation == "#[serde(default)]"
FlattenAnnotation == "#[serde(flatten)]"
RenameAnnotation(n) == "#[serde(rename = \"" \o n \o "\")]"

IsRename(a) == StartsWith(a, "#[serde(rename = ")
IsFlatten(a) == a = FlattenAnnotation
IsRenameOrFlatten(a) == IsRename(a) \/ IsFlatten(a)
IsOverride(a) == a \in {StringDecode, MapDecode, DefaultAnnotation}

\* C1 (as stated): every field whose source type is string is emitted with
\* type Option<String> and carries the null-coalescing decode annotations.
C1_StringFieldNullCoalescing ==
    (FieldConsumed /\ Consumed.go_type = StringType) =>
        /\ Emitted.ty = "Option<String>"
        /\ Contains(Emitted.annotation, StringDecode)
        /\ Contains(Emitted.annotation, DefaultAnnotation)

\* C2 (as stated): an embedded field carries the flatten annotation and no
\* rename annotation.
C2_EmbeddedFlattenNoRename ==
    (FieldConsumed /\ Consumed.embedded) =>
        /\ Contains(Emitted.annotation, FlattenAnnotation)
        /\ ~\E i \in 1..Len(Emitted.annotation) : IsRename(Emitted.annotation[i])

\* C2 (amended): an embedded field's annotation list ends with the flatten
\* annotation; it holds a rename annotation exactly when the field has a
\* serialized name that differs from its rewritten identifier, and that rename
\* comes directly before flatten.
C2_EmbeddedFlattenAndRename ==
    (FieldConsumed /\ Consumed.embedded) =>
        LET a == Emitted.annotation
            renamed == Consumed.json_name # <<>> /\ Consumed.json_name[1] # Emitted.name
        IN /\ a # <<>>
           /\ a[Len(a)] = FlattenAnnotation
           /\ (\E i \in 1..Len(a) : IsRename(a[i])) <=> renamed
           /\ renamed =>
                 /\ Len(a) >= 2
                 /\ a[Len(a) - 1] = RenameAnnotation(Consumed.json_name[1])

C2_Witness ==
    /\ FieldConsumed
    /\ Consumed.embedded
    /\ Consumed.json_name = <<"body">>
    /\ Emitted.name = "my_type"
    /\ Emitted.annotation = <<RenameAnnotation("body"), FlattenAnnotation>>

\* C3 (as stated): a field's annotation list is its rename or flatten
\* annotation, then the annotations of the type translator, then the override
\* annotations.
C3_StatedAnnotationOrder ==
    FieldConsumed =>
        Emitted.annotation =
            SelectSeq(Emitted.annotation, IsRenameOrFlatten)
                \o rust_data.annotations
                \o SelectSeq(Emitted.annotation, IsOverride)

\* C3 (amended): a field's annotation list is the override annotations (the
\* string or map decode rule and default), then the annotations of the type
\* translator, then the rename annotation, then the flatten annotation.
C3_EmittedAnnotationOrder ==
    FieldConsumed =>
        Emitted.annotation =
            SelectSeq(Emitted.annotation, IsOverride)
                \o rust_data.annotations
                \o SelectSeq(Emitted.annotation, IsRename)
                \o SelectSeq(Emitted.annotation, IsFlatten)

C3_Witness ==
    /\ FieldConsumed
    /\ Consumed.go_type = MapType(StringType, InterfaceType)
    /\ rust_data.annotations = <<BoundAnnotation>>
    /\ Emitted.annotation =
          <<MapDecode, DefaultAnnotation, BoundAnnotation, RenameAnnotation("body")>>

\* C8: a field declared with the pointer marker has omit_empty set whatever
\* its tag says, and unless its rendered type is a HashMap the emitted type is
\* the rendered type wrapped in Option.
C8_PointerFieldIsOptional ==
    (FieldConsumed /\ HasPointerMarker) =>
        /\ Consumed.omit_empty
        /\ ~HASHMAP_RE(rust_data.value) =>
              Emitted.ty = "Option<" \o rust_data.value \o ">"

C8_Witness ==
    /\ FieldConsumed
    /\ HasPointerMarker
    /\ ~HasOmitEmptyTag
    /\ Consumed.go_type = BoolType
    /\ Emitted.ty = "Option<bool>"

\* C9: a field whose type is a map at the top level is emitted with the
\* rendered HashMap type, never wrapped in Option whatever omit_empty is, and
\* its annotations start with the map decode rule and default.
C9_MapFieldNeverOptional ==
    (FieldConsumed /\ Consumed.go_type.tag = "MapType") =>
        /\ HASHMAP_RE(rust_data.value)
        /\ Emitted.ty = rust_data.value
        /\ Len(Emitted.annotation) >= 2
        /\ Emitted.annotation[1] = MapDecode
        /\ Emitted.annotation[2] = DefaultAnnotation

C9_Witness ==
    /\ FieldConsumed
    /\ HasPointerMarker
    /\ Consumed.omit_empty
    /\ Consumed.go_type = MapType(StringType, BoolType)
    /\ Emitted.ty = "HashMap<String, bool>"

-----------------------------------------------------------------------------
(* Properties of whole files (Spec) *)

IsDigit(ch) == ch \in CharsOf("0123456789")
IsAlnum(ch) == IsDigit(ch) \/ IsUpper(ch) \/ IsLower(ch)

\* The index of the last digit of the run of digits at i (i - 1 if none).
RECURSIVE DigitsEnd(_, _)
DigitsEnd(s0, i) ==
    IF i <= Len(s0) /\ IsDigit(Char(s0, i)) THEN DigitsEnd(s0, i + 1) ELSE i - 1

\* The generic placeholders T<n> of a rendered type, left to right from i.
RECURSIVE Placeholders(_, _)
Placeholders(s0, i) ==
    IF i > Len(s0) THEN <<>>
    ELSE IF /\ Char(s0, i) = "T"
            /\ (i = 1 \/ ~IsAlnum(Char(s0, i - 1)))
            /\ DigitsEnd(s0, i + 1) > i
    THEN <<SubSeq(s0, i, DigitsEnd(s0, i + 1))>>
             \o Placeholders(s0, DigitsEnd(s0, i + 1) + 1)
    ELSE Placeholders(s0, i + 1)

\* The placeholders of a struct's fields, in field order.
RECURSIVE FieldPlaceholders(_)
FieldPlaceholders(fs) ==
    IF fs = <<>> THEN <<>>
    ELSE Placeholders(fs[1].ty, 1) \o FieldPlaceholders(Tail(fs))

NumberedFromOne(st) ==
    LET ps == FieldPlaceholders(st.fields) IN
    /\ \A i \in 1..Len(ps) : ps[i] = "T" \o ToString(i)
    /\ Len(st.generics) = Len(ps)
    /\ \A i \in 1..Len(ps) : st.generics[i] = "T" \o ToString(i) \o "=Value"

\* C7: in every struct, the one being built and each one already emitted, the
\* placeholders of the fields read T1, T2, ... in field order, and the
\* struct's generics are exactly these, each defaulting to Value; that is so
\* for a struct that follows structs that allocated placeholders as well.
C7_PlaceholdersPerStruct ==
    /\ pc = "struct" => NumberedFromOne(rust_struct)
    /\ \A k \in 1..Len(scope.items) :
          scope.items[k].kind = "struct" => NumberedFromOne(scope.items[k].struct)

C7_Witness ==
    /\ pc = "struct"
    /\ Len(scope.items) = 1
    /\ scope.items[1].kind = "struct"
    /\ scope.items[1].struct.generics = <<"T1=Value", "T2=Value">>
    /\ idx = 2
    /\ rust_struct.generics = <<"T1=Value", "T2=Value">>
    /\ rust_struct.fields[1].ty = "HashMap<String, T1>"
    /\ rust_struct.fields[2].ty = "T2"

-----------------------------------------------------------------------------
(* More properties of the type parser and the type translator (SpecType) *)

\* The number of PointerType levels at the top of a GoType, and what is
\* beneath them.
RECURSIVE PointerLevels(_)
PointerLevels(g) == IF g.tag = "PointerType" THEN 1 + PointerLevels(g.args[1]) ELSE 0

RECURSIVE BeneathPointers(_)
BeneathPointers(g) == IF g.tag = "PointerType" THEN BeneathPointers(g.args[1]) ELSE g

RECURSIVE OptionWraps(_, _)
OptionWraps(n, s0) == IF n = 0 THEN s0 ELSE "Option<" \o OptionWraps(n - 1, s0) \o ">"

\* C11: a type with n PointerType levels around an inner type renders as n
\* nested Option wraps around the inner rendering, with the inner
\* translation's imports and generics.
C11_NestedPointers ==
    (pc = "translated" /\ go_type.val.tag = "PointerType") =>
        LET n == PointerLevels(go_type.val)
            inner == translate_go_type_to_rust_type(BeneathPointers(go_type.val), counter)
        IN /\ rust.value = OptionWraps(n, inner.value)
           /\ rust.libraries = inner.libraries
           /\ rust.generics = inner.generics

C11_Witness ==
    /\ pc = "translated"
    /\ go_type.val = PointerType(PointerType(BoolType))
    /\ rust.value = "Option<Option<bool>>"

-----------------------------------------------------------------------------
(* More properties of whole files (Spec) *)

StrictlySorted(ss) == \A i, j \in 1..Len(ss) : i < j => StrLess(ss[i], ss[j])

\* The libraries the loop of parse_struct gathers over the fields fs, the
\* generic counter starting at g.
RECURSIVE StructLibraries(_, _)
StructLibraries(fs, g) ==
    IF fs = <<>> THEN {}
    ELSE LET data == translate_go_type_to_rust_type(fs[1].go_type, <<g>>)
             rust_type == OmitEmptyWrap(fs[1].omit_empty, data.value)
         IN data.libraries \cup OverrideLibraries(rust_type)
                \cup StructLibraries(Tail(fs), data.counter[1])

\* C12: when a struct is pushed, the sequence of imports added for it is
\* strictly ascending (sorted, no path twice) and holds exactly the libraries
\* that any permutation of the struct's fields gathers: it is the same
\* sequence whatever the order of the fields.
C12_SortedImports ==
    [][(pc = "struct" /\ pc' = "dispatch") =>
          /\ StrictlySorted(ordered_libs')
          /\ \A p \in Permutations(1..Len(fields)) :
                {ordered_libs'[i] : i \in 1..Len(ordered_libs')}
                    = StructLibraries([i \in 1..Len(fields) |-> fields[p[i]]], 0)]_vars

C12_Witness ==
    /\ pc = "dispatch"
    /\ rule = "struct_def"
    /\ Len(scope.items) = 1
    /\ Len(scope.items[1].struct.fields) = 2
    /\ scope.items[1].struct.fields[1].ty = "T1"
    /\ ordered_libs = <<"custom_serde::*", "serde::de::DeserializeOwned",
                        "serde::ser::Serialize", "serde_json::Value",
                        "std::collections::HashMap">>

\* C13: once a top-level pair has been matched that is no struct, no type
\* alias and none of the skipped rules, the run has aborted: nothing is
\* returned and the scope, with the structs and aliases emitted before, is
\* gone.
C13_UnexpectedItemAborts ==
    rule \notin SkippedRules \cup {"struct_def", "type_alias", "none"} =>
        /\ pc = "panicked"
        /\ output = <<>>
        /\ scope = NewScope

C13_Witness ==
    /\ rule = "interface_def"
    /\ nitems = 2
    /\ pc = "panicked"
    /\ output = <<>>

-----------------------------------------------------------------------------
(* Properties of the leaves of a type (SpecType) *)

GoPackageIdentNames == {"time.Time", "json.RawMessage"}

\* The type is a primitive or a package identifier the parser does not know.
UnknownLeaf ==
    \/ src.rule = "primitive" /\ src.text \notin GoPrimitiveNames
    \/ src.rule = "package_ident" /\ src.text \notin GoPackageIdentNames

\* C14 (as stated): for a primitive name outside the recognized set and for a
\* package-qualified identifier other than the two recognized ones,
\* translation fails and the message of the failure names that identifier.
C14_FailureNamesIdentifier ==
    (UnknownLeaf /\ pc # "node") =>
        /\ pc = "panicked"
        /\ ~go_type.ok
        /\ FindFrom(go_type.msg, src.text, 1) > 0

\* The rendering of each scalar GoType.
ScalarRendering(g) ==
    CASE g.tag = "StringType" -> "String"
      [] g.tag = "BoolType" -> "bool"
      [] g.tag = "ByteType" -> "u8"
      [] g.tag = "IntType" -> "i64"
      [] g.tag = "UnsignedIntType" -> "u64"
      [] g.tag = "FloatType" -> "f64"
      [] g.tag = "UserDefined" ->
            IF g.name = "SNSEvent" THEN "SnsEvent" ELSE to_camel_case(g.name)

\* C15: a scalar GoType (a primitive or a user-defined name) always
\* translates, to the rendering of the table, with no library, annotation or
\* generic, and with the caller's counter as it was.
C15_ScalarTable ==
    /\ (pc = "parsed" /\ go_type.val.tag \in PrimitiveTags \cup {"UserDefined"}) =>
          ENABLED Translate
    /\ (pc = "translated" /\ go_type.val.tag \in PrimitiveTags \cup {"UserDefined"}) =>
          /\ rust.value = ScalarRendering(go_type.val)
          /\ rust.libraries = {}
          /\ rust.annotations = <<>>
          /\ rust.generics = <<>>
          /\ rust.counter = counter

C15_Witness ==
    /\ pc = "translated"
    /\ go_type.val = UserDefined("SNSEvent")
    /\ counter = <<1>>
    /\ rust = RustType(<<>>, {}, "SnsEvent", <<>>, <<1>>)

-----------------------------------------------------------------------------
(* One struct of four fields, end to end (SpecFour) *)

\* The first field: a string.
StringFields ==
    {StructField(<<>>, FieldDecl("Body", FALSE, Primitive("string")), j) :
        j \in {<<>>, <<JsonMappingNode("body", FALSE, "")>>,
               <<JsonMappingNode("Body", FALSE, "")>>,
               <<JsonMappingNode("body", TRUE, "")>>}}

\* The second field: an integer, behind a pointer or not.
IntFields ==
    {StructField(<<>>, FieldDecl("Count", ptr, Primitive("int")),
                 <<JsonMappingNode("count", o, "")>>) : ptr \in BOOLEAN, o \in BOOLEAN}

\* The third field: bytes.
ByteFields ==
    {StructField(<<>>, FieldDecl("Data", FALSE, t), <<JsonMappingNode("data", FALSE, "")>>) :
        t \in {Array(Primitive("byte")), Array(Array(Primitive("byte")))}}

\* The fourth field: a map of dynamic values.
MapFields ==
    {StructField(<<>>, FieldDecl("Attrs", FALSE, Map("string", v)),
                 <<JsonMappingNode("attrs", o, "")>>) :
        v \in {Interface, PackageIdent("json.RawMessage")}, o \in BOOLEAN}

FourFieldStructDef ==
    /\ AtDispatch(1)
    /\ \E f1 \in StringFields, f2 \in IntFields, f3 \in ByteFields, f4 \in MapFields :
          StructDef(StructDefNode(<<>>, "MyEvent", <<f1, f2, f3, f4>>), 1)

NextFour ==
    \/ FourFieldStructDef
    \/ TranslateField
    \/ PushStruct
    \/ Return

SpecFour == InitFile /\ [][NextFour]_vars

PointerMarkerAt(i) ==
    SelectRule(SelectRule(pairs[i].inner, "struct_field_decl")[1].inner, "pointer") # <<>>

OmitEmptyTagAt(i) ==
    LET j == SelectRule(pairs[i].inner, "json_mapping") IN
    j # <<>> /\ SelectRule(j[1].inner, "omit_empty") # <<>>

\* The struct of C16 has been consumed: a string tagged with the name its
\* identifier is rewritten to, a pointer to an integer tagged omitempty, a
\* byte array and a map from string to interface{}.
FourFieldsConsumed ==
    /\ pc = "struct"
    /\ idx = 4
    /\ Len(fields) = 4
    /\ fields[1].go_type = StringType
    /\ fields[1].json_name = <<rust_struct.fields[1].name>>
    /\ ~PointerMarkerAt(1) /\ ~OmitEmptyTagAt(1)
    /\ fields[2].go_type = IntType
    /\ PointerMarkerAt(2) /\ OmitEmptyTagAt(2)
    /\ fields[3].go_type = ArrayType(ByteType)
    /\ ~PointerMarkerAt(3) /\ ~OmitEmptyTagAt(3)
    /\ fields[4].go_type = MapType(StringType, InterfaceType)

\* C16: that struct emits Option<String> with the string decode rule and
\* default and no rename; Option<i64>, wrapped once; Base64Data; and
\* HashMap<String, T1>, not wrapped, with the map decode rule and default; T1
\* is declared once on the struct, with default Value and the bounds
\* DeserializeOwned and Serialize.
C16_FourFieldStruct ==
    FourFieldsConsumed =>
        /\ rust_struct.fields[1].ty = "Option<String>"
        /\ rust_struct.fields[1].annotation = <<StringDecode, DefaultAnnotation>>
        /\ rust_struct.fields[2].ty = "Option<i64>"
        /\ rust_struct.fields[3].ty = "Base64Data"
        /\ rust_struct.fields[4].ty = "HashMap<String, T1>"
        /\ SubSeq(rust_struct.fields[4].annotation, 1, 2) = <<MapDecode, DefaultAnnotation>>
        /\ rust_struct.generics = <<"T1=Value">>
        /\ rust_struct.bounds = <<<<"T1", "DeserializeOwned">>, <<"T1", "Serialize">>>>

C16_Witness ==
    /\ FourFieldsConsumed
    /\ ~OmitEmptyTagAt(4)
    /\ rust_struct.name = "MyEvent"
    /\ rust_struct.fields[4].annotation = <<MapDecode, DefaultAnnotation, BoundAnnotation>>

-----------------------------------------------------------------------------
(* Local identifiers in type position (SpecType) *)

\* The innermost node of a type: the element of an array, the value of a map,
\* the target of a pointer, followed down to a leaf.
RECURSIVE InnermostNode(_)
InnermostNode(n) ==
    CASE n.rule = "array" -> InnermostNode(n.inner[1])
      [] n.rule \in {"map", "pointer_type"} ->
            InnermostNode(SelectRule(n.inner, "value_type")[1].inner[1])
      [] OTHER -> n

\* The innermost GoType: the last argument, followed down to a leaf.
RECURSIVE InnermostType(_)
InnermostType(g) ==
    IF g.args = <<>> THEN g ELSE InnermostType(g.args[Len(g.args)])

\* What a local identifier stands for.
IdentMeaning(t) ==
    CASE t = "MilliSecondsEpochTime" -> TimestampMillisecondsType
      [] t = "SecondsEpochTime" -> TimestampSecondsType
      [] OTHER -> UserDefined(t)

TimestampLibrary(g) ==
    CASE g = TimestampMillisecondsType -> {"super::super::encodings::MillisecondTimestamp"}
      [] g = TimestampSecondsType -> {"super::super::encodings::SecondTimestamp"}
      [] OTHER -> {}

\* C17 (as stated): wherever a local identifier names a type, as the type
\* itself, an array element, a map value or a pointer target, the spellings
\* MilliSecondsEpochTime and SecondsEpochTime become the timestamp wrapper
\* types, imported, and any other identifier a user-defined type.
C17_IdentEverywhere ==
    (pc \in {"parsed", "translated"} /\ InnermostNode(src).rule = "ident") =>
        LET meaning == IdentMeaning(InnermostNode(src).text) IN
        /\ InnermostType(go_type.val) = meaning
        /\ pc = "translated" => TimestampLibrary(meaning) \subseteq rust.libraries

\* C18: interface{} or json.RawMessage translated with the counter at c
\* leaves the counter at c + 1, renders as T(c+1), returns exactly one generic
\* for that name, with default Value and the bounds DeserializeOwned and
\* Serialize, and exactly one annotation, the one relaxing the bound.
C18_DynamicWithCounter ==
    (/\ pc = "translated"
     /\ go_type.val.tag \in {"InterfaceType", "JsonRawType"}
     /\ counter # <<>>) =>
        LET name == "T" \o ToString(counter[1] + 1) IN
        /\ rust.counter = <<counter[1] + 1>>
        /\ rust.value = name
        /\ rust.generics = <<RustGeneric(name, <<"Value">>, <<"DeserializeOwned", "Serialize">>)>>
        /\ rust.annotations = <<BoundAnnotation>>

C18_Witness ==
    /\ pc = "translated"
    /\ go_type.val = JsonRawType
    /\ counter = <<2>>
    /\ rust.counter = <<3>>
    /\ rust.value = "T3"

-----------------------------------------------------------------------------
(* More properties of the fields a struct emits (SpecField) *)

\* C19: a field whose type is neither a map nor a string and that has the
\* pointer marker, the omitempty tag, or both, is emitted with one Option
\* around the translated type, and that translated type is the one its Go
\* type alone gives: the same for all three.
C19_OneOptionalLevel ==
    (/\ FieldConsumed
     /\ idx = 1
     /\ HasPointerMarker \/ HasOmitEmptyTag
     /\ Consumed.go_type.tag \notin {"MapType", "StringType"}) =>
        /\ rust_data.value = translate_go_type_to_rust_type(Consumed.go_type, <<0>>).value
        /\ Emitted.ty = "Option<" \o rust_data.value \o ">"

C19_Witness ==
    /\ FieldConsumed
    /\ HasPointerMarker
    /\ HasOmitEmptyTag
    /\ Consumed.go_type = BoolType
    /\ Emitted.ty = "Option<bool>"

\* The serialized name the field's tag gives, as written in the source.
SerializedName ==
    LET json == SelectRule(pairs[idx].inner, "json_mapping") IN
    IF json = <<>> THEN <<>>
    ELSE <<SelectRule(json[1].inner, "json_name")[1].text>>

\* C20: a field carries a rename annotation exactly when its tag gives a
\* serialized name that differs from the emitted identifier (the snake-cased,
\* keyword-escaped field name); the annotation carries that serialized name,
\* and a field with no tag or with an equal name carries no rename.
C20_RenameWhenNameDiffers ==
    FieldConsumed =>
        LET renames == SelectSeq(Emitted.annotation, IsRename) IN
        /\ Emitted.name = mangle(to_snake_case(Consumed.name))
        /\ IF SerializedName # <<>> /\ SerializedName[1] # Emitted.name
           THEN renames = <<RenameAnnotation(SerializedName[1])>>
           ELSE renames = <<>>

C20_Witness ==
    /\ FieldConsumed
    /\ SerializedName = <<"type">>
    /\ Emitted.name = "type_"
    /\ Contains(Emitted.annotation, RenameAnnotation("type"))

\* A field whose serialized name equals its emitted identifier: no rename.
C20_WitnessSameName ==
    /\ FieldConsumed
    /\ SerializedName = <<"body">>
    /\ Emitted.name = "body"
    /\ \A i \in 1..Len(Emitted.annotation) : ~IsRename(Emitted.annotation[i])

-----------------------------------------------------------------------------
(* The generics of the struct being built (Spec) *)

\* How many entries of xs equal x.
Count(xs, x) == Cardinality({i \in 1..Len(xs) : xs[i] = x})

\* C21: while a struct is being built, after any number of its fields, the
\* struct declares as many generic parameters as the counter reads, and every
\* placeholder of an emitted field type is declared once, with the default
\* Value and once with each of the bounds DeserializeOwned and Serialize; no
\* generic parameter is declared twice.
C21_GenericsMatchCounter ==
    pc = "struct" =>
        LET ps == FieldPlaceholders(rust_struct.fields) IN
        /\ Len(rust_struct.generics) = generics
        /\ \A i \in 1..Len(ps) :
              /\ Count(rust_struct.generics, ps[i] \o "=Value") = 1
              /\ Count(rust_struct.bounds, <<ps[i], "DeserializeOwned">>) = 1
              /\ Count(rust_struct.bounds, <<ps[i], "Serialize">>) = 1
        /\ \A i, j \in 1..Len(rust_struct.generics) :
              rust_struct.generics[i] = rust_struct.generics[j] => i = j
        /\ Len(rust_struct.bounds) = 2 * generics

\* A proper prefix: one dynamic field of two consumed.
C21_Witness ==
    /\ pc = "struct"
    /\ Len(fields) = 2
    /\ idx = 1
    /\ generics = 1
    /\ FieldPlaceholders(rust_struct.fields) = <<"T1">>
    /\ rust_struct.generics = <<"T1=Value">>
    /\ rust_struct.bounds = <<<<"T1", "DeserializeOwned">>, <<"T1", "Serialize">>>>

-----------------------------------------------------------------------------
(* The null-safety overrides against the source type (SpecField) *)

StringOverridden ==
    /\ Emitted.ty = "Option<String>"
    /\ Contains(Emitted.annotation, StringDecode)

MapOverridden == Contains(Emitted.annotation, MapDecode)

\* C22 (as stated): the string override is applied only to a field whose
\* source type is the string primitive, never to a user-defined type whatever
\* its identifier, and the map override only to a field whose top-level source
\* type is a map.
C22_OverridesAgreeWithSourceType ==
    FieldConsumed =>
        /\ StringOverridden => Consumed.go_type = StringType
        /\ MapOverridden => Consumed.go_type.tag = "MapType"

\* The map half alone: the map override is applied only to a field whose
\* top-level source type is a map.
MapOverrideOnlyOnMaps ==
    (FieldConsumed /\ MapOverridden) => Consumed.go_type.tag = "MapType"

\* The string half away from the identifier String: the override is applied
\* only to the string primitive and to user-defined types rendered as String.
StringOverrideOnlyOnRenderedString ==
    (FieldConsumed /\ StringOverridden) =>
        \/ Consumed.go_type = StringType
        \/ /\ Consumed.go_type.tag = "UserDefined"
           /\ to_camel_case(Consumed.go_type.name) = "String"

\* A field of the user-defined type String that got the string override.
UserDefinedStringOverridden ==
    /\ FieldConsumed
    /\ Consumed.go_type = UserDefined("String")
    /\ StringOverridden
    /\ Contains(Emitted.annotation, DefaultAnnotation)

====
